---------------------------- MODULE Spec2Model ----------------------------
(***************************************************************************)
(* KucoinInFlightOrder (hummingbot/connector/exchange/kucoin/              *)
(* kucoin_in_flight_order.pyx): the order record, its four status          *)
(* predicates and the from_json factory, as a state machine.               *)
(*                                                                         *)
(* Text is a sequence of one-character strings, so that Decimal(text) and  *)
(* str(decimal) are computed character by character.  A decimal value is   *)
(* Python's DecimalTuple: [sign, coeff, exp] = (-1)^sign * coeff * 10^exp. *)
(* The alphabet of the texts is digits, "+", "-", ".", "e", "E" and        *)
(* letters that occur in no number; values are finite decimals.            *)
(***************************************************************************)
EXTENDS Integers, Sequences, FiniteSets, TLC

VARIABLES
    order,    \* the record held by the order table, or NoRecord
    data,     \* the snapshot mapping handed to from_json, or NoData
    pc,       \* position of the from_json call in progress
    retval,   \* from_json's local variable retval
    result,   \* the record the caller of from_json received, or NoRecord
    err       \* the exception the caller of from_json received, or NoError

vars == <<order, data, pc, retval, result, err>>

---------------------------------------------------------------------------
(* Bounds of the model. *)

\* Coefficients of the amounts the order table writes are 0..MaxCoeff.
MaxCoeff == 1
\* Those amounts have at most MaxScale digits after the point.
MaxScale == 1

---------------------------------------------------------------------------
(* Values. *)

None == "<None>"
NoRecord == [absent |-> TRUE]
NoData == [absent |-> TRUE]
NoError == "<no error>"

Dec(sign, coeff, exp) == [sign |-> sign, coeff |-> coeff, exp |-> exp]

\* s_decimal_0 = Decimal(0)
s_decimal_0 == Dec(0, 0, 0)

RECURSIVE Pow10(_)
Pow10(n) == IF n <= 0 THEN 1 ELSE 10 * Pow10(n - 1)

\* The numeric value of d, scaled by 10^(-m), for m no larger than d.exp.
Scaled(d, m) == (IF d.sign = 1 THEN -1 ELSE 1) * d.coeff * Pow10(d.exp - m)

\* Decimal.__le__ on finite values: a <= b.
DecLeq(a, b) ==
    LET m == IF a.exp < b.exp THEN a.exp ELSE b.exp
    IN  Scaled(a, m) <= Scaled(b, m)

\* The members of the two enums, and the attributes every Enum class has
\* besides its members.
OrderTypeMembers == {"LIMIT", "MARKET"}
TradeTypeMembers == {"BUY", "SELL"}
EnumClassAttributes == {"__members__", "__name__", "__doc__", "__module__", "mro"}

MembersOf(cls) == IF cls = "OrderType" THEN OrderTypeMembers ELSE TradeTypeMembers

Member(cls, name) == [kind |-> "member", cls |-> cls, name |-> name]
ClassAttribute(cls, name) == [kind |-> "attribute", cls |-> cls, name |-> name]

IsMember(cls, v) == v.kind = "member" /\ v.cls = cls /\ v.name \in MembersOf(cls)

\* getattr(cls, name): the member of that name, else the class attribute of
\* that name, else AttributeError.
GetAttr(cls, name) ==
    IF name \in MembersOf(cls)
    THEN [ok |-> TRUE, value |-> Member(cls, name)]
    ELSE IF name \in EnumClassAttributes
    THEN [ok |-> TRUE, value |-> ClassAttribute(cls, name)]
    ELSE [ok |-> FALSE, error |-> "AttributeError"]

---------------------------------------------------------------------------
(* Decimal(text) and str(decimal). *)

Digits == <<"0", "1", "2", "3", "4", "5", "6", "7", "8", "9">>

IsDigit(c) == \E i \in 1..10 : Digits[i] = c

DigitVal(c) == (CHOOSE i \in 1..10 : Digits[i] = c) - 1

AllDigits(t) == \A i \in 1..Len(t) : IsDigit(t[i])

\* int(t) for a text of digits; int("") is taken as 0 (an absent part).
RECURSIVE ToNat(_)
ToNat(t) ==
    IF Len(t) = 0 THEN 0
    ELSE 10 * ToNat(SubSeq(t, 1, Len(t) - 1)) + DigitVal(t[Len(t)])

\* str(n) for n >= 0.
RECURSIVE DigitsOf(_)
DigitsOf(n) ==
    IF n < 10 THEN <<Digits[n + 1]>>
    ELSE Append(DigitsOf(n \div 10), Digits[(n % 10) + 1])

RECURSIVE Zeros(_)
Zeros(k) == IF k <= 0 THEN <<>> ELSE <<"0">> \o Zeros(k - 1)

\* The first position of t holding a character of cs, or 0.
FirstOf(t, cs) ==
    IF \E i \in 1..Len(t) : t[i] \in cs
    THEN CHOOSE i \in 1..Len(t) : t[i] \in cs /\ \A j \in 1..(i - 1) : t[j] \notin cs
    ELSE 0

HasSign(t) == Len(t) > 0 /\ t[1] \in {"+", "-"}

Unsigned(t) == IF HasSign(t) THEN SubSeq(t, 2, Len(t)) ELSE t

\* The parts of a numeric string: [sign] int ["." frac] [("e"|"E") [sign] digits].
NumParts(t) ==
    LET u    == Unsigned(t)
        e    == FirstOf(u, {"e", "E"})
        mant == IF e = 0 THEN u ELSE SubSeq(u, 1, e - 1)
        expt == IF e = 0 THEN <<>> ELSE SubSeq(u, e + 1, Len(u))
        dot  == FirstOf(mant, {"."})
    IN  [neg     |-> HasSign(t) /\ t[1] = "-",
         intpart |-> IF dot = 0 THEN mant ELSE SubSeq(mant, 1, dot - 1),
         frac    |-> IF dot = 0 THEN <<>> ELSE SubSeq(mant, dot + 1, Len(mant)),
         hasexp  |-> e # 0,
         expneg  |-> HasSign(expt) /\ expt[1] = "-",
         expdig  |-> Unsigned(expt)]

\* The text is a numeric string of the decimal module's grammar.
WellFormed(t) ==
    LET p == NumParts(t)
    IN  /\ AllDigits(p.intpart)
        /\ AllDigits(p.frac)
        /\ Len(p.intpart) + Len(p.frac) >= 1
        /\ p.hasexp => (Len(p.expdig) >= 1 /\ AllDigits(p.expdig))

\* Decimal(text): the value, or InvalidOperation on a malformed text.
Decimal(t) ==
    IF ~WellFormed(t)
    THEN [ok |-> FALSE, error |-> "InvalidOperation"]
    ELSE LET p == NumParts(t)
             x == (IF p.expneg THEN -1 ELSE 1) * ToNat(p.expdig)
         IN  [ok    |-> TRUE,
              value |-> Dec(IF p.neg THEN 1 ELSE 0,
                            ToNat(p.intpart \o p.frac),
                            x - Len(p.frac))]

\* "%+d" % n
SignedDigits(n) == IF n < 0 THEN <<"-">> \o DigitsOf(0 - n) ELSE <<"+">> \o DigitsOf(n)

\* str(d): plain notation when exp <= 0 and the number is at least 1e-6 in
\* its leading digit, scientific notation otherwise.
Str(d) ==
    LET int        == DigitsOf(d.coeff)
        leftdigits == d.exp + Len(int)
        dotplace   == IF d.exp <= 0 /\ leftdigits > -6 THEN leftdigits ELSE 1
        intpart    == IF dotplace <= 0 THEN <<"0">>
                      ELSE IF dotplace >= Len(int)
                      THEN int \o Zeros(dotplace - Len(int))
                      ELSE SubSeq(int, 1, dotplace)
        fracpart   == IF dotplace <= 0 THEN <<".">> \o Zeros(0 - dotplace) \o int
                      ELSE IF dotplace >= Len(int) THEN <<>>
                      ELSE <<".">> \o SubSeq(int, dotplace + 1, Len(int))
        exppart    == IF leftdigits = dotplace THEN <<>>
                      ELSE <<"E">> \o SignedDigits(leftdigits - dotplace)
    IN  (IF d.sign = 1 THEN <<"-">> ELSE <<>>) \o intpart \o fracpart \o exppart

---------------------------------------------------------------------------
(* The record. *)

\* InFlightOrderBase.__init__: the seven arguments and the state are stored,
\* the executed amounts and the fee start at zero, the fee asset is absent.
BaseInit(client_order_id, exchange_order_id, trading_pair, order_type, trade_type, price, amount, initial_state) ==
    [client_order_id       |-> client_order_id,
     exchange_order_id     |-> exchange_order_id,
     trading_pair          |-> trading_pair,
     order_type            |-> order_type,
     trade_type            |-> trade_type,
     price                 |-> price,
     amount                |-> amount,
     last_state            |-> initial_state,
     executed_amount_base  |-> s_decimal_0,
     executed_amount_quote |-> s_decimal_0,
     fee_asset             |-> None,
     fee_paid              |-> s_decimal_0]

\* A default initial_state of "submitted".
DefaultInitialStateSubmitted == "submitted"

\* The default of __init__'s initial_state parameter.
DefaultInitialState == "LOCAL"

\* KucoinInFlightOrder.__init__: every argument goes to the base class.
KucoinInit(client_order_id, exchange_order_id, trading_pair, order_type, trade_type, price, amount, initial_state) ==
    BaseInit(client_order_id, exchange_order_id, trading_pair, order_type,
             trade_type, price, amount, initial_state)

\* is_done with the exchange's word "canceled" taken as a terminal code too.
is_done_with_canceled(r) == r.last_state \in {"DONE", "CANCEL", "canceled"}

is_done(r) == r.last_state \in {"DONE", "CANCEL"}

is_failure(r) == r.last_state \in {"CANCEL"}

\* is_cancelled testing the exchange's word instead of the status code.
is_cancelled_by_exchange_word(r) == r.last_state \in {"canceled"}

is_cancelled(r) == r.last_state \in {"CANCEL"}

\* is_local that also takes a submitted order as local.
is_local_or_submitted(r) == r.last_state \in {"LOCAL", "submitted"}

is_local(r) == r.last_state \in {"LOCAL"}

---------------------------------------------------------------------------
(* Inputs. *)

\* The states the exchange reports, the two terminal codes, the local state
\* and two strings that are none of them.
States ==
    {"LOCAL", "submitted", "partial-filled", "cancelling", "filled",
     "canceled", "partial-canceled", "DONE", "CANCEL", "done", ""}

ClientOrderIds == {"C1"}
ExchangeOrderIds == {None, "E1"}
TradingPairs == {"ETH-USDT"}
FeeAssets == {None, "KCS"}

\* price = 10.00, amount = 2.0
Prices == {Dec(0, 1000, -2)}
Amounts == {Dec(0, 20, -1)}

\* What the order table writes to the executed amounts and the fee.
FillAmounts == {Dec(0, c, e) : c \in 0..MaxCoeff, e \in (0 - MaxScale)..0}

\* What a persisted snapshot may hold in a decimal-valued key: texts of
\* amounts, a negative amount, scientific notation, and malformed texts.
PriceTexts == {<<"1", "0", ".", "0", "0">>, <<"a", "b", "c">>}
AmountTexts == {<<"2", ".", "0">>, <<"2", ".", "0", ".", "0">>}
ExecutedTexts == {<<"1", ".", "5">>, <<"-", "1">>, <<"1", "E", "+", "1">>, <<"1", "e">>}
FeeTexts == {<<"0", ".", "0", "1">>, <<"-", ".", "5">>, <<>>}

OrderTypeNames == {"LIMIT", "NOT_A_TYPE", "__members__"}
TradeTypeNames == {"BUY", "SELL", "buy", "__name__"}
SnapshotStates == {"LOCAL", "partial-filled", "DONE"}

\* The snapshot mappings a state file may hold, well formed or not.
Snapshots ==
    [client_order_id       : ClientOrderIds,
     exchange_order_id     : {"E1"},
     trading_pair          : TradingPairs,
     order_type            : OrderTypeNames,
     trade_type            : TradeTypeNames,
     price                 : PriceTexts,
     amount                : AmountTexts,
     last_state            : SnapshotStates,
     executed_amount_base  : ExecutedTexts,
     executed_amount_quote : ExecutedTexts,
     fee_asset             : {"KCS"},
     fee_paid              : FeeTexts]

\* The mapping with the documented key set written from a record: enums by
\* member name, decimals as text, the rest as they are.
ToSnapshot(r) ==
    [client_order_id       |-> r.client_order_id,
     exchange_order_id     |-> r.exchange_order_id,
     trading_pair          |-> r.trading_pair,
     order_type            |-> r.order_type.name,
     trade_type            |-> r.trade_type.name,
     price                 |-> Str(r.price),
     amount                |-> Str(r.amount),
     last_state            |-> r.last_state,
     executed_amount_base  |-> Str(r.executed_amount_base),
     executed_amount_quote |-> Str(r.executed_amount_quote),
     fee_asset             |-> r.fee_asset,
     fee_paid              |-> Str(r.fee_paid)]

---------------------------------------------------------------------------
(* from_json, statement by statement. *)

Ok(v) == [ok |-> TRUE, value |-> v]
Fail(e) == [ok |-> FALSE, error |-> e]

\* The constructor call without initial_state=data["last_state"].
ConstructRetvalDefaultState(d) ==
    LET order_type == GetAttr("OrderType", d.order_type)
        trade_type == GetAttr("TradeType", d.trade_type)
        price      == Decimal(d.price)
        amount     == Decimal(d.amount)
    IN  IF ~order_type.ok THEN Fail(order_type.error)
        ELSE IF ~trade_type.ok THEN Fail(trade_type.error)
        ELSE IF ~price.ok THEN Fail(price.error)
        ELSE IF ~amount.ok THEN Fail(amount.error)
        ELSE Ok(KucoinInit(d.client_order_id, d.exchange_order_id, d.trading_pair,
                           order_type.value, trade_type.value, price.value,
                           amount.value, DefaultInitialState))

\* Lines 58-67: the keyword arguments are evaluated in the order written, the
\* first one that raises ends the call, and the record is constructed with
\* the snapshot's last_state as initial_state.
ConstructRetval(d) ==
    LET order_type == GetAttr("OrderType", d.order_type)
        trade_type == GetAttr("TradeType", d.trade_type)
        price      == Decimal(d.price)
        amount     == Decimal(d.amount)
    IN  IF ~order_type.ok THEN Fail(order_type.error)
        ELSE IF ~trade_type.ok THEN Fail(trade_type.error)
        ELSE IF ~price.ok THEN Fail(price.error)
        ELSE IF ~amount.ok THEN Fail(amount.error)
        ELSE Ok(KucoinInit(d.client_order_id, d.exchange_order_id, d.trading_pair,
                           order_type.value, trade_type.value, price.value,
                           amount.value, d.last_state))

\* Line 68
SetExecutedAmountBase(r, d) ==
    LET v == Decimal(d.executed_amount_base)
    IN  IF v.ok THEN Ok([r EXCEPT !.executed_amount_base = v.value]) ELSE Fail(v.error)

\* Line 69 reading the key of line 68.
SetExecutedAmountQuoteFromBaseKey(r, d) ==
    LET v == Decimal(d.executed_amount_base)
    IN  IF v.ok THEN Ok([r EXCEPT !.executed_amount_quote = v.value]) ELSE Fail(v.error)

\* Line 69 assigning to the field of line 68.
SetExecutedAmountQuoteIntoBase(r, d) ==
    LET v == Decimal(d.executed_amount_quote)
    IN  IF v.ok THEN Ok([r EXCEPT !.executed_amount_base = v.value]) ELSE Fail(v.error)

\* Line 69
SetExecutedAmountQuote(r, d) ==
    LET v == Decimal(d.executed_amount_quote)
    IN  IF v.ok THEN Ok([r EXCEPT !.executed_amount_quote = v.value]) ELSE Fail(v.error)

\* Line 70
SetFeeAsset(r, d) == Ok([r EXCEPT !.fee_asset = d.fee_asset])

\* Line 71 with a malformed fee taken as zero.
SetFeePaidOrZero(r, d) ==
    LET v == Decimal(d.fee_paid)
    IN  Ok([r EXCEPT !.fee_paid = IF v.ok THEN v.value ELSE s_decimal_0])

\* Line 71
SetFeePaid(r, d) ==
    LET v == Decimal(d.fee_paid)
    IN  IF v.ok THEN Ok([r EXCEPT !.fee_paid = v.value]) ELSE Fail(v.error)

\* Line 72
SetLastState(r, d) == Ok([r EXCEPT !.last_state = d.last_state])

\* An exception that hands the record built so far to the caller.
RaiseWithPartialRecord(e) ==
    /\ pc' = "raised"
    /\ err' = e
    /\ retval' = NoRecord
    /\ result' = retval

\* An exception leaves from_json: the local retval is gone and the caller
\* receives the exception and no record.
Raise(e) ==
    /\ pc' = "raised"
    /\ err' = e
    /\ retval' = NoRecord
    /\ result' = NoRecord

\* One statement of from_json: its outcome is stored in retval and the call
\* goes on, or its exception ends the call.
Statement(from, to, outcome) ==
    /\ pc = from
    /\ IF outcome.ok
       THEN pc' = to /\ retval' = outcome.value /\ UNCHANGED <<result, err>>
       ELSE Raise(outcome.error)
    /\ UNCHANGED <<order, data>>

---------------------------------------------------------------------------
(* Actions. *)

Init ==
    /\ order = NoRecord
    /\ data = NoData
    /\ pc = "idle"
    /\ retval = NoRecord
    /\ result = NoRecord
    /\ err = NoError

\* The connector submits an order: __init__ without initial_state.
Create ==
    /\ pc = "idle"
    /\ order = NoRecord
    /\ \E c \in ClientOrderIds, e \in ExchangeOrderIds, t \in TradingPairs,
          ot \in OrderTypeMembers, tt \in TradeTypeMembers,
          p \in Prices, a \in Amounts :
          order' = KucoinInit(c, e, t, Member("OrderType", ot),
                              Member("TradeType", tt), p, a, DefaultInitialState)
    /\ UNCHANGED <<data, pc, retval, result, err>>

\* The order table assigns last_state.
AssignLastState ==
    /\ pc = "idle"
    /\ order # NoRecord
    /\ \E s \in States : order' = [order EXCEPT !.last_state = s]
    /\ UNCHANGED <<data, pc, retval, result, err>>

\* The order table assigns executed_amount_base.
AssignExecutedAmountBase ==
    /\ pc = "idle"
    /\ order # NoRecord
    /\ \E v \in FillAmounts : order' = [order EXCEPT !.executed_amount_base = v]
    /\ UNCHANGED <<data, pc, retval, result, err>>

\* The order table assigns executed_amount_quote.
AssignExecutedAmountQuote ==
    /\ pc = "idle"
    /\ order # NoRecord
    /\ \E v \in FillAmounts : order' = [order EXCEPT !.executed_amount_quote = v]
    /\ UNCHANGED <<data, pc, retval, result, err>>

\* The order table assigns fee_asset.
AssignFeeAsset ==
    /\ pc = "idle"
    /\ order # NoRecord
    /\ \E f \in FeeAssets : order' = [order EXCEPT !.fee_asset = f]
    /\ UNCHANGED <<data, pc, retval, result, err>>

\* The order table assigns fee_paid.
AssignFeePaid ==
    /\ pc = "idle"
    /\ order # NoRecord
    /\ \E v \in FillAmounts : order' = [order EXCEPT !.fee_paid = v]
    /\ UNCHANGED <<data, pc, retval, result, err>>

\* The order table retires a finished order.
Retire ==
    /\ pc = "idle"
    /\ order # NoRecord
    /\ is_done(order)
    /\ order' = NoRecord
    /\ UNCHANGED <<data, pc, retval, result, err>>

\* from_json is called on the snapshot written from the tracked record.
CallOnOwnSnapshot ==
    /\ pc = "idle"
    /\ order # NoRecord
    /\ data' = ToSnapshot(order)
    /\ pc' = "l58"
    /\ UNCHANGED <<order, retval, result, err>>

\* from_json is called on a snapshot read from a state file.
CallOnStoredSnapshot ==
    /\ pc = "idle"
    /\ order = NoRecord
    /\ data' \in Snapshots
    /\ pc' = "l58"
    /\ UNCHANGED <<order, retval, result, err>>

FromJsonConstruct == Statement("l58", "l68", ConstructRetval(data))

FromJsonExecutedAmountBase == Statement("l68", "l69", SetExecutedAmountBase(retval, data))

FromJsonExecutedAmountQuote == Statement("l69", "l70", SetExecutedAmountQuote(retval, data))

FromJsonFeeAsset == Statement("l70", "l71", SetFeeAsset(retval, data))

FromJsonFeePaid == Statement("l71", "l72", SetFeePaid(retval, data))

FromJsonLastState == Statement("l72", "l73", SetLastState(retval, data))

\* Line 73
FromJsonReturn ==
    /\ pc = "l73"
    /\ pc' = "returned"
    /\ result' = retval
    /\ retval' = NoRecord
    /\ UNCHANGED <<order, data, err>>

\* The caller is done with the call: a record restored from the tracked
\* record's snapshot takes its place in the order table.
Finish ==
    /\ pc \in {"returned", "raised"}
    /\ order' = IF pc = "returned" /\ order # NoRecord THEN result ELSE order
    /\ data' = NoData
    /\ pc' = "idle"
    /\ retval' = NoRecord
    /\ result' = NoRecord
    /\ err' = NoError

Next ==
    \/ Create
    \/ AssignLastState
    \/ AssignExecutedAmountBase
    \/ AssignExecutedAmountQuote
    \/ AssignFeeAsset
    \/ AssignFeePaid
    \/ Retire
    \/ CallOnOwnSnapshot
    \/ CallOnStoredSnapshot
    \/ FromJsonConstruct
    \/ FromJsonExecutedAmountBase
    \/ FromJsonExecutedAmountQuote
    \/ FromJsonFeeAsset
    \/ FromJsonFeePaid
    \/ FromJsonLastState
    \/ FromJsonReturn
    \/ Finish

Spec == Init /\ [][Next]_vars

---------------------------------------------------------------------------
(* Properties. *)

\* The records that exist in a state.
Records == {r \in {order, retval, result} : r # NoRecord}

\* C1: in every reachable state, is_done of a record is true exactly when its
\* current last_state is "DONE" or "CANCEL", and false for every other state.
C1_IsDoneIffTerminal ==
    \A r \in Records :
        /\ r.last_state = "DONE" => is_done(r)
        /\ r.last_state = "CANCEL" => is_done(r)
        /\ r.last_state \in (States \ {"DONE", "CANCEL"}) => ~is_done(r)

C1_Witness ==
    /\ order # NoRecord
    /\ order.last_state = "CANCEL"
    /\ order.executed_amount_base # s_decimal_0
    /\ is_done(order)

\* C2: is_failure equals is_cancelled, both are true exactly when last_state
\* is "CANCEL"; at "DONE" is_done holds and is_failure does not.
C2_FailureIsCancelled ==
    \A r \in Records :
        /\ is_failure(r) = is_cancelled(r)
        /\ is_failure(r) <=> r.last_state = "CANCEL"
        /\ r.last_state = "DONE" => is_done(r) /\ ~is_failure(r)
        /\ r.last_state = "CANCEL" => is_done(r) /\ is_failure(r) /\ is_cancelled(r)

C2_Witness ==
    /\ order # NoRecord
    /\ order.last_state = "DONE"
    /\ is_done(order)
    /\ ~is_failure(order)

\* C3: is_local is true exactly when last_state is "LOCAL", and is_local and
\* is_done are never both true.
C3_IsLocalIffLocal ==
    \A r \in Records :
        /\ is_local(r) <=> r.last_state = "LOCAL"
        /\ ~(is_local(r) /\ is_done(r))

C3_Witness ==
    /\ pc = "returned"
    /\ result # NoRecord
    /\ is_local(result)
    /\ ~is_done(result)

\* C4: a record constructed by __init__ without initial_state has last_state
\* "LOCAL", is local and is not done, whatever the other arguments.
C4_DefaultStateIsLocal ==
    [][(order = NoRecord /\ order' # NoRecord) =>
           /\ order'.last_state = "LOCAL"
           /\ is_local(order')
           /\ ~is_done(order')]_vars

C4_Witness ==
    /\ order # NoRecord
    /\ order.exchange_order_id = None
    /\ order.executed_amount_base = s_decimal_0
    /\ order.fee_asset = None
    /\ is_local(order)
    /\ ~is_done(order)

\* C5: from_json on the snapshot written from a record does not fail and
\* returns a record whose twelve fields equal the original's.
C5_RoundTrip ==
    order # NoRecord =>
        /\ data # NoData => data = ToSnapshot(order)
        /\ pc # "raised"
        /\ pc = "returned" => result = order

C5_Witness ==
    /\ pc = "returned"
    /\ result = order
    /\ order.last_state = "partial-filled"
    /\ order.executed_amount_base = Dec(0, 1, 0)
    /\ order.executed_amount_quote = Dec(0, 1, -1)
    /\ order.fee_paid = Dec(0, 1, -1)
    /\ order.fee_asset = "KCS"

\* C6: the record from_json builds has the snapshot's last_state from its
\* construction on, and the returned record is local only when the snapshot's
\* last_state is "LOCAL".
C6_LastStateFromSnapshot ==
    /\ retval # NoRecord => retval.last_state = data.last_state
    /\ result # NoRecord =>
           /\ result.last_state = data.last_state
           /\ is_local(result) <=> data.last_state = "LOCAL"

C6_Witness ==
    /\ pc = "returned"
    /\ order = NoRecord
    /\ result.last_state = "partial-filled"
    /\ ~is_local(result)

EnumLookupFails(d) ==
    ~GetAttr("OrderType", d.order_type).ok \/ ~GetAttr("TradeType", d.trade_type).ok

NamesAMember(d) ==
    d.order_type \in OrderTypeMembers /\ d.trade_type \in TradeTypeMembers

AnyDecimalMalformed(d) ==
    \/ ~WellFormed(d.price)
    \/ ~WellFormed(d.amount)
    \/ ~WellFormed(d.executed_amount_base)
    \/ ~WellFormed(d.executed_amount_quote)
    \/ ~WellFormed(d.fee_paid)

\* C7: whenever order_type or trade_type names no member of its enum,
\* from_json returns no record, and fails with the attribute error when the
\* decimal texts are well formed; a record it returns has members of the two
\* enums as order_type and trade_type.
C7_UnknownEnumNameRejected ==
    /\ (data # NoData /\ ~NamesAMember(data)) =>
           /\ result = NoRecord
           /\ pc # "returned"
           /\ (pc = "raised" /\ ~AnyDecimalMalformed(data)) => err = "AttributeError"
    /\ result # NoRecord =>
           /\ IsMember("OrderType", result.order_type)
           /\ IsMember("TradeType", result.trade_type)

\* C8 as stated: whenever a decimal-valued key is malformed, from_json hands
\* out no record and the error it fails with is the decimal parse error.
C8_MalformedDecimalIsParseError ==
    (data # NoData /\ AnyDecimalMalformed(data)) =>
        /\ result = NoRecord
        /\ pc # "returned"
        /\ pc = "raised" => err = "InvalidOperation"

\* C8 amended: whenever a decimal-valued key is malformed, from_json hands out
\* no record; it fails with the decimal parse error unless the lookup of
\* order_type or trade_type fails, which is evaluated first and then decides
\* the error.  A call that got past a statement parsed that statement's text.
C8_MalformedDecimalFails ==
    (data # NoData /\ AnyDecimalMalformed(data)) =>
        /\ result = NoRecord
        /\ pc \notin {"l73", "returned"}
        /\ pc = "raised" =>
               err = IF EnumLookupFails(data) THEN "AttributeError" ELSE "InvalidOperation"
        /\ pc \in {"l68", "l69", "l70", "l71", "l72"} =>
               WellFormed(data.price) /\ WellFormed(data.amount)
        /\ pc \in {"l69", "l70", "l71", "l72"} => WellFormed(data.executed_amount_base)
        /\ pc \in {"l70", "l71", "l72"} => WellFormed(data.executed_amount_quote)
        /\ pc = "l72" => WellFormed(data.fee_paid)

C8_Witness ==
    /\ pc = "raised"
    /\ err = "InvalidOperation"
    /\ ~WellFormed(data.price)
    /\ result = NoRecord

\* Every field of r is what from_json reads from d.
PopulatedFrom(r, d) ==
    /\ r.client_order_id = d.client_order_id
    /\ r.exchange_order_id = d.exchange_order_id
    /\ r.trading_pair = d.trading_pair
    /\ r.order_type = GetAttr("OrderType", d.order_type).value
    /\ r.trade_type = GetAttr("TradeType", d.trade_type).value
    /\ r.price = Decimal(d.price).value
    /\ r.amount = Decimal(d.amount).value
    /\ r.last_state = d.last_state
    /\ r.executed_amount_base = Decimal(d.executed_amount_base).value
    /\ r.executed_amount_quote = Decimal(d.executed_amount_quote).value
    /\ r.fee_asset = d.fee_asset
    /\ r.fee_paid = Decimal(d.fee_paid).value

\* C9: the caller of from_json holds a record only after the call returned,
\* and then every field is populated from the snapshot; a call that failed,
\* also after the record was constructed, hands out no record.
C9_AllOrNothing ==
    /\ result # NoRecord => (pc = "returned" /\ err = NoError /\ PopulatedFrom(result, data))
    /\ pc = "returned" => result # NoRecord
    /\ pc = "raised" => (result = NoRecord /\ err # NoError)

C9_Witness ==
    /\ pc = "raised"
    /\ ConstructRetval(data).ok
    /\ WellFormed(data.executed_amount_base)
    /\ ~WellFormed(data.fee_paid)
    /\ result = NoRecord

\* Between two states of one record none of the three amounts got smaller.
NotDecreased(r, s) ==
    (r # NoRecord /\ s # NoRecord) =>
        /\ DecLeq(r.executed_amount_base, s.executed_amount_base)
        /\ DecLeq(r.executed_amount_quote, s.executed_amount_quote)
        /\ DecLeq(r.fee_paid, s.fee_paid)

NonNegativeIfParsed(t) == Decimal(t).ok => DecLeq(s_decimal_0, Decimal(t).value)

SnapshotNonNegative(d) ==
    /\ NonNegativeIfParsed(d.executed_amount_base)
    /\ NonNegativeIfParsed(d.executed_amount_quote)
    /\ NonNegativeIfParsed(d.fee_paid)

============================================================================
